---- MODULE Spec2Model ----
(***************************************************************************)
(* Resident Registry: the in-memory store and the three request handlers   *)
(* of src/resident_backend/src/routes/index.js (GET, POST and DELETE of    *)
(* /api/residents), with the JavaScript conversions the handlers rely on   *)
(* (typeof, String.prototype.trim, Number(), Number.isFinite, Math.trunc,  *)
(* Array.prototype.findIndex / splice / push) modelled by what they do.    *)
(***************************************************************************)
EXTENDS Integers, Sequences, FiniteSets

VARIABLES
    residents,       \* const residents = []            (index.js:10)
    nextResidentId,  \* let nextResidentId = 1          (index.js:11)
    req,             \* the request the last handler run received
    res,             \* the response the last handler run sent
    created,         \* history: number of creates answered 201 so far
    deleted          \* history: ids whose delete was answered 204 so far

vars == <<residents, nextResidentId, req, res, created, deleted>>

\* Successful creates are cut off once the counter has passed MaxId.
MaxId == 3

----------------------------------------------------------------------------
(* JavaScript values.  A string is a sequence of one-character strings.    *)
(* A number is NaN, +Infinity, -Infinity, or the finite decimal m / 10^e   *)
(* in lowest form (e = 0, or m not divisible by 10).  The sign of zero is  *)
(* not represented: -0 and +0 are the same number here, as they are in     *)
(* JSON output and under <, >= and ===.                                    *)

NaN == [k |-> "nan", m |-> 0, e |-> 0]
PosInf == [k |-> "inf", m |-> 0, e |-> 0]
NegInf == [k |-> "ninf", m |-> 0, e |-> 0]

RECURSIVE Pow10(_)
Pow10(e) == IF e = 0 THEN 1 ELSE 10 * Pow10(e - 1)

RECURSIVE Fin(_, _)
Fin(m, e) ==
    IF e > 0 /\ m % 10 = 0 THEN Fin(m \div 10, e - 1)
    ELSE [k |-> "fin", m |-> m, e |-> e]

Int2Num(i) == Fin(i, 0)

Undefined == [t |-> "undefined", b |-> FALSE, n |-> NaN, s |-> <<>>]
Null == [t |-> "object", b |-> FALSE, n |-> NaN, s |-> <<>>]
Bool(b) == [t |-> "boolean", b |-> b, n |-> NaN, s |-> <<>>]
Num(n) == [t |-> "number", b |-> FALSE, n |-> n, s |-> <<>>]
Str(s) == [t |-> "string", b |-> FALSE, n |-> NaN, s |-> s]

\* typeof v
TypeOf(v) == v.t

\* WhiteSpace and LineTerminator code points (those the inputs below use)
WhiteSpace == {" ", "\t", "\n", "\r"}

RECURSIVE TrimStart(_)
TrimStart(s) ==
    IF s # <<>> /\ Head(s) \in WhiteSpace THEN TrimStart(Tail(s)) ELSE s

RECURSIVE TrimEnd(_)
TrimEnd(s) ==
    IF s # <<>> /\ s[Len(s)] \in WhiteSpace
    THEN TrimEnd(SubSeq(s, 1, Len(s) - 1))
    ELSE s

\* String.prototype.trim
Trim(s) == TrimEnd(TrimStart(s))

DecimalDigits == <<"0", "1", "2", "3", "4", "5", "6", "7", "8", "9">>

IsDigit(c) == \E i \in 1..10 : DecimalDigits[i] = c

DigitVal(c) == (CHOOSE i \in 1..10 : DecimalDigits[i] = c) - 1

RECURSIVE DigitsVal(_)
DigitsVal(ds) ==
    IF ds = <<>> THEN 0
    ELSE 10 * DigitsVal(SubSeq(ds, 1, Len(ds) - 1)) + DigitVal(ds[Len(ds)])

\* StrUnsignedDecimalLiteral without exponent: digits [. [digits]] | . digits
UnsignedDecimal(u) ==
    LET dots == {i \in 1..Len(u) : u[i] = "."}
        dot == IF dots = {} THEN Len(u) + 1 ELSE CHOOSE i \in dots : TRUE
        ip == SubSeq(u, 1, dot - 1)
        fp == SubSeq(u, dot + 1, Len(u))
    IN  IF /\ Cardinality(dots) <= 1
           /\ Len(ip) + Len(fp) >= 1
           /\ \A i \in 1..Len(ip) : IsDigit(ip[i])
           /\ \A i \in 1..Len(fp) : IsDigit(fp[i])
        THEN Fin(DigitsVal(ip \o fp), Len(fp))
        ELSE NaN

Negate(n) ==
    CASE n.k = "fin" -> Fin(0 - n.m, n.e)
      [] n.k = "inf" -> NegInf
      [] n.k = "ninf" -> PosInf
      [] OTHER -> NaN

\* StringToNumber for strings without exponent, radix prefix or "Infinity"
StringToNumber(s) ==
    LET t == Trim(s)
    IN  IF t = <<>> THEN Int2Num(0)
        ELSE IF Head(t) = "-" THEN Negate(UnsignedDecimal(Tail(t)))
        ELSE IF Head(t) = "+" THEN UnsignedDecimal(Tail(t))
        ELSE UnsignedDecimal(t)

\* Number(v)
ToNumber(v) ==
    CASE TypeOf(v) = "undefined" -> NaN
      [] TypeOf(v) = "object" -> Int2Num(0)
      [] TypeOf(v) = "boolean" -> IF v.b THEN Int2Num(1) ELSE Int2Num(0)
      [] TypeOf(v) = "number" -> v.n
      [] TypeOf(v) = "string" -> StringToNumber(v.s)

\* Number.isFinite(n)
IsFinite(n) == n.k = "fin"

\* n < 0
LessThanZero(n) == n.k = "ninf" \/ (n.k = "fin" /\ n.m < 0)

\* a === b on numbers
StrictEquals(a, b) == a.k # "nan" /\ b.k # "nan" /\ a = b

TruncRound(n) ==
    IF n.k # "fin" THEN n
    ELSE Fin((2 * n.m + Pow10(n.e)) \div (2 * Pow10(n.e)), 0)

\* Math.trunc(n)
Trunc(n) ==
    IF n.k # "fin" THEN n
    ELSE IF n.m >= 0 THEN Fin(n.m \div Pow10(n.e), 0)
    ELSE Fin(0 - ((0 - n.m) \div Pow10(n.e)), 0)

----------------------------------------------------------------------------
(* Requests.  The body of a POST is the pair (name, age) that              *)
(* `const { name, age } = req.body || {}` destructures: a missing body or  *)
(* a missing field is Undefined.  The :id of a DELETE is a non-empty       *)
(* string.                                                                 *)

NameInputs ==
    { Undefined,
      Num(Int2Num(7)),
      Str(<<>>),
      Str(<<" ", "\t">>),
      Str(<<" ", "A", " ", "l", "\n">>) }

AgeInputs ==
    { Undefined,
      Null,
      Bool(TRUE),
      Num(Int2Num(-1)),
      Num(Fin(357, 1)),
      Num(Fin(-5, 1)),
      Num(PosInf),
      Str(<<"a", "b", "c">>),
      Str(<<>>),
      Str(<<"\t", "1", ".", "9", " ">>),
      Str(<<"-", "1">>) }

IdParams ==
    { <<"1">>, <<"2">>, <<"3">>, <<"4">>,
      <<"1", ".", "0">>, <<"2", ".", "5">>, <<"a", "b", "c">>,
      <<"9", "9", "9", "9">> }

NoRequest == [op |-> "none", name |-> Undefined, age |-> Undefined, id |-> <<>>]
ListRequest == [op |-> "list", name |-> Undefined, age |-> Undefined, id |-> <<>>]
CreateRequest(name, age) == [op |-> "create", name |-> name, age |-> age, id |-> <<>>]
DeleteRequest(param) == [op |-> "delete", name |-> Undefined, age |-> Undefined, id |-> param]

(* Responses: res.status(s).json(v) and res.status(s).send().              *)

NameRequired == "Field \"name\" is required"
AgeNonNegative == "Field \"age\" must be a non-negative number"
ResidentNotFound == "Resident not found"

ErrorBody(msg) == [json |-> "error", items |-> <<>>, message |-> msg]
ArrayBody(rs) == [json |-> "array", items |-> rs, message |-> ""]
ObjectBody(r) == [json |-> "object", items |-> <<r>>, message |-> ""]
EmptyBody == [json |-> "none", items |-> <<>>, message |-> ""]

Response(status, body) == [status |-> status, body |-> body]

NoResponse == Response(0, EmptyBody)

----------------------------------------------------------------------------
(* The conditions and expressions of the handlers.                         *)

NameInvalidNoTrim(name) == TypeOf(name) # "string" \/ Len(name.s) = 0

\* typeof name !== 'string' || name.trim().length === 0
NameInvalid(name) == TypeOf(name) # "string" \/ Len(Trim(name.s)) = 0

AgeInvalidNoSign(parsedAge) == ~IsFinite(parsedAge)

\* !Number.isFinite(parsedAge) || parsedAge < 0
AgeInvalid(parsedAge) == ~IsFinite(parsedAge) \/ LessThanZero(parsedAge)

NextIdStuck(n) == n

\* the value nextResidentId++ leaves in the counter
NextId(n) == n + 1

NewResidentUntrimmed(id, name, parsedAge) ==
    [id |-> id, name |-> TrimStart(name.s), age |-> Trunc(parsedAge)]

\* { id: ..., name: name.trim(), age: Math.trunc(parsedAge) }
NewResident(id, name, parsedAge) ==
    [id |-> id, name |-> Trim(name.s), age |-> Trunc(parsedAge)]

Unshift(rs, r) == <<r>> \o rs

\* residents.push(resident)
Push(rs, r) == Append(rs, r)

\* !Number.isFinite(id)
IdInvalid(id) == ~IsFinite(id)

\* residents.findIndex((r) => r.id === id), zero-based, -1 when none
FindIndex(rs, id) ==
    LET hits == {i \in 1..Len(rs) : StrictEquals(Int2Num(rs[i].id), id)}
    IN  IF hits = {} THEN -1
        ELSE (CHOOSE i \in hits : \A j \in hits : i <= j) - 1

NotFoundNever(idx) == FALSE

\* idx === -1
NotFound(idx) == idx = -1

Min(a, b) == IF a <= b THEN a ELSE b
Max(a, b) == IF a >= b THEN a ELSE b

SpliceToEnd(rs, start, deleteCount) ==
    LET from == IF start < 0 THEN Max(Len(rs) + start, 0) ELSE Min(start, Len(rs))
    IN  SubSeq(rs, 1, from)

\* rs.splice(start, deleteCount): start is zero-based, negative counts from the end
Splice(rs, start, deleteCount) ==
    LET from == IF start < 0 THEN Max(Len(rs) + start, 0) ELSE Min(start, Len(rs))
        count == Min(Max(deleteCount, 0), Len(rs) - from)
    IN  SubSeq(rs, 1, from) \o SubSeq(rs, from + count + 1, Len(rs))

Ids(rs) == {rs[i].id : i \in 1..Len(rs)}

----------------------------------------------------------------------------
(* The state machine: each handler runs to completion as one step.         *)

Init ==
    /\ residents = <<>>
    /\ nextResidentId = 1
    /\ req = NoRequest
    /\ res = NoResponse
    /\ created = 0
    /\ deleted = {}

\* router.get('/api/residents')
List ==
    /\ req' = ListRequest
    /\ res' = Response(200, ArrayBody(residents))
    /\ UNCHANGED <<residents, nextResidentId, created, deleted>>

\* router.post('/api/residents') with body { name, age }
Post(name, age) ==
    LET parsedAge == ToNumber(age)
        resident == NewResident(nextResidentId, name, parsedAge)
    IN  /\ req' = CreateRequest(name, age)
        /\ IF NameInvalid(name)
           THEN /\ res' = Response(400, ErrorBody(NameRequired))
                /\ UNCHANGED <<residents, nextResidentId, created, deleted>>
           ELSE IF AgeInvalid(parsedAge)
           THEN /\ res' = Response(400, ErrorBody(AgeNonNegative))
                /\ UNCHANGED <<residents, nextResidentId, created, deleted>>
           ELSE /\ nextResidentId <= MaxId
                /\ nextResidentId' = NextId(nextResidentId)
                /\ residents' = Push(residents, resident)
                /\ res' = Response(201, ObjectBody(resident))
                /\ created' = created + 1
                /\ UNCHANGED deleted

Create == \E name \in NameInputs, age \in AgeInputs : Post(name, age)

\* router.delete('/api/residents/:id') with req.params.id = param
Remove(param) ==
    LET id == ToNumber(Str(param))
        idx == FindIndex(residents, id)
    IN  /\ req' = DeleteRequest(param)
        /\ IF IdInvalid(id)
           THEN /\ res' = Response(404, ErrorBody(ResidentNotFound))
                /\ UNCHANGED <<residents, nextResidentId, created, deleted>>
           ELSE IF NotFound(idx)
           THEN /\ res' = Response(404, ErrorBody(ResidentNotFound))
                /\ UNCHANGED <<residents, nextResidentId, created, deleted>>
           ELSE /\ residents' = Splice(residents, idx, 1)
                /\ res' = Response(204, EmptyBody)
                /\ deleted' = deleted \cup (Ids(residents) \ Ids(residents'))
                /\ UNCHANGED <<nextResidentId, created>>

Delete == \E param \in IdParams : Remove(param)

Next == List \/ Create \/ Delete

Spec == Init /\ [][Next]_vars

----------------------------------------------------------------------------
(* What the claims mean by their words, stated without the handlers' own   *)
(* operators.                                                              *)

NoEdgeWhiteSpace(t) ==
    t = <<>> \/ (t[1] \notin WhiteSpace /\ t[Len(t)] \notin WhiteSpace)

\* t is s with its leading and trailing whitespace removed
IsTrimOf(t, s) ==
    /\ NoEdgeWhiteSpace(t)
    /\ \E a \in 0..Len(s), b \in 0..Len(s) :
          /\ a + b + Len(t) = Len(s)
          /\ \A i \in 1..a : s[i] \in WhiteSpace
          /\ \A i \in (Len(s) - b + 1)..Len(s) : s[i] \in WhiteSpace
          /\ t = SubSeq(s, a + 1, Len(s) - b)

\* name is a string that is non-empty after trimming
ValidName(name) ==
    name.t = "string" /\ \E i \in 1..Len(name.s) : name.s[i] \notin WhiteSpace

\* age converts to a finite number >= 0
ValidAge(age) == ToNumber(age).k = "fin" /\ ToNumber(age).m >= 0

IsNonNegativeInteger(n) == n.k = "fin" /\ n.e = 0 /\ n.m >= 0

\* z is the finite number x truncated toward zero
IsTruncOf(z, x) ==
    /\ x.k = "fin" /\ z.k = "fin" /\ z.e = 0
    /\ IF x.m >= 0
       THEN z.m * Pow10(x.e) <= x.m /\ x.m < (z.m + 1) * Pow10(x.e)
       ELSE z.m * Pow10(x.e) >= x.m /\ x.m > (z.m - 1) * Pow10(x.e)

\* the number the :id of a delete request parses to
ParsedId(param) == ToNumber(Str(param))

\* the positions of the stored residents whose id the :id parses to
Matches(rs, param) ==
    {i \in 1..Len(rs) : ParsedId(param) = [k |-> "fin", m |-> rs[i].id, e |-> 0]}

\* rs without its i-th record
Without(rs, i) ==
    [j \in 1..(Len(rs) - 1) |-> IF j < i THEN rs[j] ELSE rs[j + 1]]

Created == res.body.items[1]

----------------------------------------------------------------------------
(* C1: the k-th create answered 201 returns id k, whatever deletes and     *)
(* failed requests came in between; the id was never assigned before.      *)
C1_SequentialIds ==
    [][(req'.op = "create" /\ res'.status = 201) =>
          /\ created' = created + 1
          /\ Created'.id = created'
          /\ Created'.id \notin (Ids(residents) \cup deleted)]_vars

C1_Witness ==
    /\ req.op = "create" /\ res.status = 201
    /\ created = 3 /\ Created.id = 3
    /\ deleted # {}

(* C2: no two stored residents have the same id.                           *)
C2_UniqueIds ==
    \A i, j \in 1..Len(residents) :
        i # j => residents[i].id # residents[j].id

C2_Witness == Len(residents) >= 2 /\ deleted # {}

(* C3: a create with a valid name and a valid age is answered 201 with the *)
(* created record, and appends exactly that record: trimmed name, age      *)
(* truncated toward zero, an id no stored record had; the rest unchanged.  *)
C3_CreateAppends ==
    [][(req'.op = "create" /\ ValidName(req'.name) /\ ValidAge(req'.age)) =>
          /\ res'.status = 201
          /\ res'.body.json = "object"
          /\ residents' = residents \o <<Created'>>
          /\ IsTrimOf(Created'.name, req'.name.s)
          /\ IsTruncOf(Created'.age, ToNumber(req'.age))
          /\ Created'.id \notin Ids(residents)]_vars

C3_Witness ==
    /\ req = CreateRequest(Str(<<" ", "A", " ", "l", "\n">>), Num(Fin(357, 1)))
    /\ res.status = 201
    /\ Len(residents) >= 2
    /\ residents[Len(residents)].name = <<"A", " ", "l">>
    /\ residents[Len(residents)].age = Int2Num(35)

(* C4: a create whose name is not a string, or is blank, is answered 400   *)
(* 'Field "name" is required' whatever the age, and changes nothing.       *)
C4_NameRequired ==
    [][(req'.op = "create" /\ ~ValidName(req'.name)) =>
          /\ res' = Response(400, ErrorBody("Field \"name\" is required"))
          /\ residents' = residents
          /\ nextResidentId' = nextResidentId]_vars

C4_Witness ==
    /\ req = CreateRequest(Str(<<" ", "\t">>), Num(Int2Num(-1)))
    /\ res.status = 400
    /\ residents # <<>>

(* C5: a create with a valid name and an age that does not convert to a    *)
(* finite number >= 0 is answered 400 'Field "age" must be a non-negative  *)
(* number' and changes neither the collection nor the id counter.          *)
C5_AgeNonNegative ==
    [][(req'.op = "create" /\ ValidName(req'.name) /\ ~ValidAge(req'.age)) =>
          /\ res' = Response(400,
                ErrorBody("Field \"age\" must be a non-negative number"))
          /\ residents' = residents
          /\ nextResidentId' = nextResidentId]_vars

C5_Witness ==
    /\ req.op = "create" /\ ValidName(req.name)
    /\ req.age = Str(<<"a", "b", "c">>)
    /\ res.status = 400
    /\ residents # <<>>

(* C6: a delete whose id parses to the id of a stored resident is answered *)
(* 204 and removes exactly that record; the others keep their fields and   *)
(* order, and the id counter is unchanged.                                 *)
C6_DeleteRemovesOne ==
    [][(req'.op = "delete" /\ Matches(residents, req'.id) # {}) =>
          /\ res' = Response(204, EmptyBody)
          /\ Len(residents') = Len(residents) - 1
          /\ \E i \in Matches(residents, req'.id) :
                residents' = Without(residents, i)
          /\ nextResidentId' = nextResidentId]_vars

C6_Witness ==
    /\ req = DeleteRequest(<<"2">>)
    /\ res.status = 204
    /\ Ids(residents) = {1, 3}

(* C7: a delete whose id does not parse to a finite number, or matches no  *)
(* stored resident, is answered 404 'Resident not found' and changes       *)
(* neither the collection nor the id counter.                              *)
C7_DeleteNotFound ==
    [][(req'.op = "delete" /\
          (ParsedId(req'.id).k # "fin" \/ Matches(residents, req'.id) = {})) =>
          /\ res' = Response(404, ErrorBody("Resident not found"))
          /\ residents' = residents
          /\ nextResidentId' = nextResidentId]_vars

C7_Witness ==
    /\ req = DeleteRequest(<<"a", "b", "c">>)
    /\ res.status = 404
    /\ Len(residents) >= 2

(* C8: once a delete of id i was answered 204, no stored record and no     *)
(* list result has id i again, and every later delete of i is answered 404.*)
C8_DeletedStaysDeleted ==
    /\ [](deleted \cap Ids(residents) = {})
    /\ [][\A i \in deleted :
            /\ (req'.op = "list" =>
                  \A k \in 1..Len(res'.body.items) : res'.body.items[k].id # i)
            /\ ((req'.op = "delete" /\ ParsedId(req'.id) = Int2Num(i)) =>
                  res'.status = 404)]_vars

C8_Witness ==
    /\ req = DeleteRequest(<<"1">>)
    /\ res.status = 404
    /\ 1 \in deleted
    /\ Ids(residents) = {2, 3}

(* C9: every stored resident has a positive integer id, a non-empty name   *)
(* without leading or trailing whitespace and a non-negative integer age,  *)
(* and keeps all three for as long as it is stored.                        *)
C9_WellFormedImmutable ==
    /\ [](\A i \in 1..Len(residents) :
            /\ residents[i].id \in Nat \ {0}
            /\ residents[i].name # <<>>
            /\ NoEdgeWhiteSpace(residents[i].name)
            /\ IsNonNegativeInteger(residents[i].age))
    /\ [][\A i \in 1..Len(residents), j \in 1..Len(residents') :
            residents[i].id = residents'[j].id => residents[i] = residents'[j]]_vars

C9_Witness ==
    /\ Len(residents) = 3
    /\ residents[1].age = Int2Num(0)
    /\ residents[2].age = Int2Num(1)
    /\ req.op = "delete" /\ res.status = 404

(* C10: list answers 200 with the stored residents in insertion order and  *)
(* changes nothing; the collection starts empty; the stored ids ascend     *)
(* strictly by position and are all below the id counter.                  *)
C10_ListInOrder ==
    /\ residents = <<>>
    /\ [](/\ \A i, j \in 1..Len(residents) :
               i < j => residents[i].id < residents[j].id
          /\ \A i \in 1..Len(residents) : residents[i].id < nextResidentId)
    /\ [][req'.op = "list" =>
            /\ res' = Response(200, ArrayBody(residents))
            /\ residents' = residents
            /\ nextResidentId' = nextResidentId]_vars

C10_Witness ==
    /\ req.op = "list" /\ res.status = 200
    /\ Len(res.body.items) = 2
    /\ res.body.items[1].id = 1 /\ res.body.items[2].id = 3

====
